---- MODULE Spec2Model ----
(***************************************************************************)
(* A model of 0x02-redis_basic: exercise.py (RedisCache: store / get /     *)
(* get_str / get_int / replay over one Redis database) and web.py (the     *)
(* count-and-cache decorator around get_page).                             *)
(*                                                                         *)
(* Bytes are sequences of integers 0..255, text is a sequence of Unicode   *)
(* code points.  A Python value is a record [t, v]: t is "str", "bytes",   *)
(* "int", "float", or "raise" (v names the exception).                     *)
(***************************************************************************)
EXTENDS Integers, Sequences, FiniteSets, TLC

(* ------------------------------ bounds -------------------------------- *)
\* calls of RedisCache.store in one run
MaxStores == 2
\* calls of get_page in one run
MaxCalls == 3

(* ------------------------- bytes and text ----------------------------- *)
PyStr(text) == [t |-> "str", v |-> text]
PyBytes(b) == [t |-> "bytes", v |-> b]
PyInt(n) == [t |-> "int", v |-> n]
PyRaise(e) == [t |-> "raise", v |-> e]
\* Python's None (the reply of GET for a missing key)
None == [t |-> "None", v |-> <<>>]

\* the number of bytes the lead byte c announces; 0 for an invalid start byte
Utf8Need(c) ==
    IF c < 128 THEN 1
    ELSE IF c < 194 THEN 0
    ELSE IF c < 224 THEN 2
    ELSE IF c < 240 THEN 3
    ELSE IF c < 245 THEN 4
    ELSE 0

\* whether x may be the j-th byte after the lead byte c
Utf8ContOk(c, j, x) ==
    /\ x \in 128..191
    /\ (j = 1 /\ c = 224) => x >= 160
    /\ (j = 1 /\ c = 237) => x < 160
    /\ (j = 1 /\ c = 240) => x >= 144
    /\ (j = 1 /\ c = 244) => x < 144

\* the offsets j >= 1 after position i at which the sequence b breaks off or
\* holds a byte that is no valid continuation
Utf8BadOffsets(b, i) ==
    {j \in 1..(Utf8Need(b[i]) - 1) :
        \/ i + j > Len(b)
        \/ ~Utf8ContOk(b[i], j, b[i + j])}

Min(S) == CHOOSE x \in S : \A y \in S : x <= y

\* the code point of the well-formed sequence of n bytes at position i
Utf8CodePoint(b, i, n) ==
    CASE n = 1 -> b[i]
      [] n = 2 -> ((b[i] - 192) * 64) + (b[i + 1] - 128)
      [] n = 3 -> ((b[i] - 224) * 4096) + ((b[i + 1] - 128) * 64) + (b[i + 2] - 128)
      [] n = 4 -> ((b[i] - 240) * 262144) + ((b[i + 1] - 128) * 4096)
                  + ((b[i + 2] - 128) * 64) + (b[i + 3] - 128)

\* bytes.decode("utf-8", errors) from position i on: the text, or
\* UnicodeDecodeError under errors = "strict"; "ignore" drops the malformed
\* bytes (an invalid start byte alone, else the bytes before the offending one)
RECURSIVE Utf8DecodeFrom(_, _, _)
Utf8DecodeFrom(b, i, errors) ==
    IF i > Len(b) THEN PyStr(<<>>)
    ELSE LET n == Utf8Need(b[i])
             bad == Utf8BadOffsets(b, i)
             malformed == n = 0 \/ bad # {}
             span == IF n = 0 THEN 1 ELSE IF bad # {} THEN Min(bad) ELSE n
             rest == Utf8DecodeFrom(b, i + span, errors)
         IN IF malformed
            THEN IF errors = "strict" THEN PyRaise("UnicodeDecodeError") ELSE rest
            ELSE IF rest.t = "raise" THEN rest
                 ELSE PyStr(<<Utf8CodePoint(b, i, n)>> \o rest.v)

\* value.decode("utf-8", errors) for any Python value: None has no decode
Decode(value, errors) ==
    IF value.t # "bytes" THEN PyRaise("AttributeError")
    ELSE Utf8DecodeFrom(value.v, 1, errors)

\* the UTF-8 bytes of one code point (no surrogates among the inputs)
Utf8EncodeChar(cp) ==
    IF cp < 128 THEN <<cp>>
    ELSE IF cp < 2048 THEN <<192 + (cp \div 64), 128 + (cp % 64)>>
    ELSE IF cp < 65536
         THEN <<224 + (cp \div 4096), 128 + ((cp \div 64) % 64), 128 + (cp % 64)>>
    ELSE <<240 + (cp \div 262144), 128 + ((cp \div 4096) % 64),
           128 + ((cp \div 64) % 64), 128 + (cp % 64)>>

RECURSIVE Utf8Encode(_)
Utf8Encode(text) ==
    IF text = <<>> THEN <<>>
    ELSE Utf8EncodeChar(Head(text)) \o Utf8Encode(Tail(text))

\* the decimal digits of a natural number, as ASCII
RECURSIVE NatDigits(_)
NatDigits(n) ==
    IF n < 10 THEN <<48 + n>> ELSE NatDigits(n \div 10) \o <<48 + (n % 10)>>

\* repr of an int, as ASCII
IntRepr(n) == IF n < 0 THEN <<45>> \o NatDigits(0 - n) ELSE NatDigits(n)

\* repr of a float <<neg, whole, tenth>> (the value -1^neg * (whole + tenth/10)),
\* as ASCII: "1.5", "-0.0"
FloatRepr(f) ==
    (IF f[1] = 1 THEN <<45>> ELSE <<>>) \o NatDigits(f[2]) \o <<46, 48 + f[3]>>

\* the characters str.strip() drops before int() reads the text
IsSpace(c) == c \in {9, 10, 11, 12, 13, 28, 29, 30, 31, 32, 133, 160}

RECURSIVE LStrip(_)
LStrip(s) == IF s # <<>> /\ IsSpace(Head(s)) THEN LStrip(Tail(s)) ELSE s

RECURSIVE RStrip(_)
RStrip(s) ==
    IF s # <<>> /\ IsSpace(s[Len(s)]) THEN RStrip(SubSeq(s, 1, Len(s) - 1)) ELSE s

\* the value of a run of decimal digits with single underscores between
\* digits; -1 when the text is not of that shape.  prev is "start", "digit"
\* or "us" (the character before).  Of the code points the inputs hold, only
\* the ASCII digits are decimal digits.
RECURSIVE ParseDigits(_, _, _)
ParseDigits(s, acc, prev) ==
    IF s = <<>> THEN (IF prev = "digit" THEN acc ELSE -1)
    ELSE IF Head(s) \in 48..57
         THEN ParseDigits(Tail(s), (acc * 10) + (Head(s) - 48), "digit")
    ELSE IF Head(s) = 95 /\ prev = "digit" THEN ParseDigits(Tail(s), acc, "us")
    ELSE -1

\* int(text) of Python, base 10: the integer, or ValueError
PyIntOfStr(text) ==
    LET s == RStrip(LStrip(text))
        signed == s # <<>> /\ Head(s) \in {43, 45}
        digits == IF signed THEN Tail(s) ELSE s
        n == ParseDigits(digits, 0, "start")
    IN IF n < 0 THEN PyRaise("ValueError")
       ELSE IF signed /\ Head(s) = 45 THEN PyInt(0 - n) ELSE PyInt(n)

(* ------------------------- the Redis database ------------------------- *)
\* A database is [data, ttl]: data maps each existing key to [type, val]
\* (a "string" of bytes or a "list" of byte strings), ttl maps the keys that
\* expire to the seconds they have left.
EmptyMap == [k \in {} |-> 0]

EmptyDb == [data |-> EmptyMap, ttl |-> EmptyMap]

Put(f, k, x) == [j \in DOMAIN f \cup {k} |-> IF j = k THEN x ELSE f[j]]

Drop(f, ks) == [j \in DOMAIN f \ ks |-> f[j]]

\* FLUSHDB: every key of the database is deleted
RedisFlushDb(r) == EmptyDb

\* GET key: the bytes, None for a missing key, an error for a list
RedisGet(r, key) ==
    IF key \notin DOMAIN r.data THEN None
    ELSE IF r.data[key].type = "string" THEN PyBytes(r.data[key].val)
    ELSE PyRaise("ResponseError")

\* SET key value: the key holds the bytes and no longer expires
RedisSet(r, key, bytes) ==
    [data |-> Put(r.data, key, [type |-> "string", val |-> bytes]),
     ttl |-> Drop(r.ttl, {key})]

\* the integer a string value holds for INCR, as Redis reads it (an optional
\* minus, no leading zero, digits only); -1 stands for "not an integer"
\* among the non-negative counters of this model
RedisIntOf(bytes) ==
    IF bytes = <<>> \/ (\E i \in 1..Len(bytes) : bytes[i] \notin 48..57) THEN -1
    ELSE IF Len(bytes) > 1 /\ bytes[1] = 48 THEN -1
    ELSE ParseDigits(bytes, 0, "start")

\* INCR key: a missing key counts from 0; the time to live is kept
RedisIncr(r, key) ==
    IF key \notin DOMAIN r.data
    THEN [data |-> Put(r.data, key, [type |-> "string", val |-> <<49>>]), ttl |-> r.ttl]
    ELSE IF r.data[key].type = "string" /\ RedisIntOf(r.data[key].val) >= 0
    THEN [data |-> Put(r.data, key,
                       [type |-> "string",
                        val |-> NatDigits(RedisIntOf(r.data[key].val) + 1)]),
          ttl |-> r.ttl]
    ELSE r

\* EXPIRE key seconds: an existing key gets the time to live
RedisExpire(r, key, seconds) ==
    IF key \in DOMAIN r.data
    THEN [data |-> r.data, ttl |-> Put(r.ttl, key, seconds)]
    ELSE r

\* LRANGE key 0 -1: the whole list, empty for a missing key
RedisLRange(r, key) ==
    IF key \in DOMAIN r.data /\ r.data[key].type = "list" THEN r.data[key].val
    ELSE <<>>

\* the bytes redis-py sends for a value: bytes as they are, text as UTF-8,
\* numbers as their repr
Encode(data) ==
    CASE data.t = "bytes" -> data.v
      [] data.t = "str" -> Utf8Encode(data.v)
      [] data.t = "int" -> IntRepr(data.v)
      [] data.t = "float" -> FloatRepr(data.v)

(* ----------------------------- exercise.py ---------------------------- *)
VARIABLES
    redis,        \* the Redis database at localhost:6379, db 0
    issued,       \* the keys uuid4 has produced so far
    calls,        \* the store calls since the last RedisCache(): [data, key]
    nStores,      \* store calls made in this run
    result        \* the last operation and what it returned

\* the values uuid4 may produce, as text
UUIDs == {"3f1c", "8a2e", "c07b"}

\* str(uuid4()): a value that uuid4 has not produced before (the version 4
\* UUID is taken as unique, which is what the program relies on)
Uuid4(seen) == UUIDs \ seen

\* a function object, by the attributes the program reads
StoreFn == [name |-> "store", qualname |-> "RedisCache.store"]

\* the data store is called with: "h" followed by e-acute, b"\xff", b" -3\n",
\* b"1\xff2", 7, 1.5
StoreInputs ==
    {PyStr(<<104, 233>>), PyBytes(<<255>>), PyBytes(<<32, 45, 51, 10>>),
     PyBytes(<<49, 255, 50>>), PyInt(7), [t |-> "float", v |-> <<0, 1, 5>>]}

\* the decode_function arguments of get: none, self._decode_value, the lambda
\* of get_int, and the builtin len
DecodeFns == {"None", "decode_value", "int_lambda", "len"}

\* the keys get is asked for: every uuid and a key nothing is stored under
ProbeKeys == UUIDs \cup {"missing"}

\* RedisCache._decode_value without the try/except
decode_value_unguarded(value, default) == Decode(value, "strict")

\* RedisCache._decode_value(value, default)
decode_value(value, default) ==
    LET text == Decode(value, "strict")
    IN IF text.t = "raise" THEN default ELSE text

\* RedisCache._get_function_key reading __name__
get_function_key_name(func) == func.name

\* RedisCache._get_function_key(func)
get_function_key(func) == func.qualname

\* count_calls, the part of the wrapper that runs before the method: the
\* counter under the function's derived name is increased by one
count_calls(r, func) == RedisIncr(r, get_function_key(func))

\* store writing under one fixed key
store_fixed_key(r, key, data) == RedisSet(r, "3f1c", Encode(data))

\* the body of RedisCache.store, for the key uuid4 gave
store(r, key, data) == RedisSet(r, key, Encode(data))

\* what a decode_function returns for the reply of GET
ApplyDecode(fn, value) ==
    CASE fn = "decode_value" -> decode_value(value, PyStr(<<>>))
      [] fn = "int_lambda" ->
            LET text == Decode(value, "ignore")
            IN IF text.t = "raise" THEN text ELSE PyIntOfStr(text.v)
      [] fn = "len" ->
            IF value.t = "bytes" THEN PyInt(Len(value.v)) ELSE PyRaise("TypeError")

\* RedisCache.get with the test on decode_function inverted
get_inverted(r, key, decode_function) ==
    LET value == RedisGet(r, key)
    IN IF decode_function # "None"
       THEN decode_value(value, PyStr(<<>>))
       ELSE value

\* RedisCache.get(key, decode_function)
get(r, key, decode_function) ==
    LET value == RedisGet(r, key)
    IN IF decode_function = "None"
       THEN decode_value(value, PyStr(<<>>))
       ELSE ApplyDecode(decode_function, value)

\* RedisCache.get_str(key)
get_str(r, key) == get(r, key, "decode_value")

\* RedisCache.get_int(key)
get_int(r, key) == get(r, key, "int_lambda")

\* RedisCache.replay(func): the call count of the header line and the
\* (input, output) pairs of the history lines
replay(r, func) ==
    LET func_name == get_function_key(func)
        counter == RedisGet(r, func_name)
        truthy == counter.t = "bytes" /\ counter.v # <<>>
        call_count == IF truthy THEN PyIntOfStr(Decode(counter, "strict").v)
                      ELSE PyInt(0)
        inputs == RedisLRange(r, func_name \o ":inputs")
        outputs == RedisLRange(r, func_name \o ":outputs")
        n == IF Len(inputs) < Len(outputs) THEN Len(inputs) ELSE Len(outputs)
    IN [count |-> call_count,
        lines |-> [i \in 1..n |-> <<Decode(PyBytes(inputs[i]), "strict"),
                                   Decode(PyBytes(outputs[i]), "strict")>>]]

\* RedisCache.__init__ leaving the database as it is
init_no_flush(r) == r

\* RedisCache.__init__: the database the new instance leaves behind
init(r) == RedisFlushDb(r)

(* ------------------------------- web.py ------------------------------- *)
VARIABLES
    pc,           \* per caller: "idle" or the line of wrapper it is about to run
    url,          \* per caller: the argument of its get_page call
    cached_data,  \* per caller: the reply of line 38
    html_content, \* per caller: what the fetch of line 44 returned
    ret,          \* how the last call that ended did so, and what it returned
    fetched,      \* per URL: the fetches of get_page that completed
    nCalls,       \* get_page calls made in this run
    entry,        \* per caller: what line 38 met, see EntryAt
    overlap,      \* per caller: another call was in progress during this one
    fetchedBy,    \* per caller: fetches completed by the call in progress
    incrBy        \* per caller: what the call in progress added to the counter

vars == <<redis, issued, calls, nStores, result,
          pc, url, cached_data, html_content, ret, fetched, nCalls,
          entry, overlap, fetchedBy, incrBy>>

cacheVars == <<redis, issued, calls, nStores, result>>

webVars == <<pc, url, cached_data, html_content, ret, fetched, nCalls,
             entry, overlap, fetchedBy, incrBy>>

\* the concurrent callers of get_page
Procs == {"A", "B"}

URLs == {"x.io", "y.io"}

\* the page bodies a fetch may return: "" and "e-acute"
Bodies == {<<>>, <<233>>}

\* the seconds a cached page lives
TTL == 10

\* line 37
cached_key(u) == "cached:" \o u

\* the counter key built without the URL
count_key_shared(u) == "count:"

\* line 43
count_key(u) == "count:" \o u

\* `if cached_data:` of line 40: None and b"" are false
Truthy(value) == value.t = "bytes" /\ value.v # <<>>

\* line 48 left out
expire_cached_never(r, key) == r

\* line 48
expire_cached(r, key) == RedisExpire(r, key, TTL)

\* one second passes: every time to live loses a second, and a key whose
\* time is up is deleted
RedisTick(r) ==
    LET dead == {k \in DOMAIN r.ttl : r.ttl[k] <= 1}
    IN [data |-> Drop(r.data, dead),
        ttl |-> [k \in DOMAIN r.ttl \ dead |-> r.ttl[k] - 1]]

\* the value of the counter count:u, 0 while the key is missing
CountOf(r, u) ==
    IF ("count:" \o u) \in DOMAIN r.data
    THEN RedisIntOf(r.data["count:" \o u].val)
    ELSE 0

NoReturn == [kind |-> "none", val |-> <<>>]

(* ------------------------------ the state ------------------------------ *)
Init ==
    /\ redis = init(EmptyDb)
    /\ issued = {}
    /\ calls = <<>>
    /\ nStores = 0
    /\ result = [op |-> "init", key |-> "", fn |-> "None", out |-> None]
    /\ pc = [p \in Procs |-> "idle"]
    /\ url = [p \in Procs |-> "x.io"]
    /\ cached_data = [p \in Procs |-> None]
    /\ html_content = [p \in Procs |-> <<>>]
    /\ ret = NoReturn
    /\ fetched = [u \in URLs |-> 0]
    /\ nCalls = 0
    /\ entry = [p \in Procs |-> "unread"]
    /\ overlap = [p \in Procs |-> FALSE]
    /\ fetchedBy = [p \in Procs |-> 0]
    /\ incrBy = [p \in Procs |-> 0]

(* ------------------------ actions of exercise.py ----------------------- *)
\* cache = RedisCache()
Construct ==
    /\ redis' = init(redis)
    /\ calls' = <<>>
    /\ result' = [op |-> "init", key |-> "", fn |-> "None", out |-> None]
    /\ UNCHANGED <<issued, nStores>>
    /\ UNCHANGED webVars

\* cache.store(data): the count_calls wrapper, then the method
Store(data) ==
    /\ nStores < MaxStores
    /\ \E key \in Uuid4(issued) :
        /\ redis' = store(count_calls(redis, StoreFn), key, data)
        /\ issued' = issued \cup {key}
        /\ calls' = Append(calls, [data |-> data, key |-> key])
        /\ result' = [op |-> "store", key |-> key, fn |-> "None",
                      out |-> [t |-> "key", v |-> key]]
    /\ nStores' = nStores + 1
    /\ UNCHANGED webVars

\* cache.get(key, decode_function)
Get(key, fn) ==
    /\ result' = [op |-> "get", key |-> key, fn |-> fn, out |-> get(redis, key, fn)]
    /\ UNCHANGED <<redis, issued, calls, nStores>>
    /\ UNCHANGED webVars

\* cache.get_str(key)
GetStr(key) ==
    /\ result' = [op |-> "get_str", key |-> key, fn |-> "decode_value",
                  out |-> get_str(redis, key)]
    /\ UNCHANGED <<redis, issued, calls, nStores>>
    /\ UNCHANGED webVars

\* cache.get_int(key)
GetInt(key) ==
    /\ result' = [op |-> "get_int", key |-> key, fn |-> "int_lambda",
                  out |-> get_int(redis, key)]
    /\ UNCHANGED <<redis, issued, calls, nStores>>
    /\ UNCHANGED webVars

\* RedisCache.replay(cache.store)
Replay ==
    /\ result' = [op |-> "replay", key |-> "", fn |-> "None",
                  out |-> [t |-> "replay", v |-> replay(redis, StoreFn)]]
    /\ UNCHANGED <<redis, issued, calls, nStores>>
    /\ UNCHANGED webVars

Next ==
    \/ Construct
    \/ \E data \in StoreInputs : Store(data)
    \/ \E key \in ProbeKeys, fn \in DecodeFns : Get(key, fn)
    \/ \E key \in ProbeKeys : GetStr(key)
    \/ \E key \in ProbeKeys : GetInt(key)
    \/ Replay

Spec == Init /\ [][Next]_vars

(* --------------------------- actions of web.py ------------------------- *)
\* what the lookup of caller p meets: "live", an entry with its time to live
\* running; else "expired", when the page was fetched before and no such entry
\* is there; else "never"
EntryAt(p) ==
    IF cached_key(url[p]) \in DOMAIN redis.ttl THEN "live"
    ELSE IF fetched[url[p]] > 0 THEN "expired"
    ELSE "never"

\* the call of caller p ends: its frame is gone
Leave(p) ==
    /\ pc' = [pc EXCEPT ![p] = "idle"]
    /\ url' = [url EXCEPT ![p] = "x.io"]
    /\ cached_data' = [cached_data EXCEPT ![p] = None]
    /\ html_content' = [html_content EXCEPT ![p] = <<>>]
    /\ entry' = [entry EXCEPT ![p] = "unread"]
    /\ overlap' = [overlap EXCEPT ![p] = FALSE]
    /\ fetchedBy' = [fetchedBy EXCEPT ![p] = 0]
    /\ incrBy' = [incrBy EXCEPT ![p] = 0]

\* a caller enters get_page(u)
CallGetPage(p, u) ==
    /\ pc[p] = "idle"
    /\ nCalls < MaxCalls
    /\ nCalls' = nCalls + 1
    /\ pc' = [pc EXCEPT ![p] = "l38"]
    /\ url' = [url EXCEPT ![p] = u]
    /\ overlap' = [q \in Procs |->
                      IF q = p THEN \E o \in Procs \ {p} : pc[o] # "idle"
                      ELSE overlap[q] \/ pc[q] # "idle"]
    /\ UNCHANGED <<cached_data, html_content, ret, fetched, entry,
                   fetchedBy, incrBy>>
    /\ UNCHANGED cacheVars

\* line 38: cached_data = redis_store.get(cached_key)
GetCached(p) ==
    /\ pc[p] = "l38"
    /\ cached_data' = [cached_data EXCEPT ![p] = RedisGet(redis, cached_key(url[p]))]
    /\ entry' = [entry EXCEPT ![p] = EntryAt(p)]
    /\ pc' = [pc EXCEPT ![p] = "l40"]
    /\ UNCHANGED <<url, html_content, ret, fetched, nCalls, overlap,
                   fetchedBy, incrBy>>
    /\ UNCHANGED cacheVars

\* lines 40-41: the cached bytes are returned as text
ReturnCached(p) ==
    /\ pc[p] = "l40"
    /\ Truthy(cached_data[p])
    /\ ret' = [kind |-> "hit", val |-> Decode(cached_data[p], "strict").v]
    /\ Leave(p)
    /\ UNCHANGED <<fetched, nCalls>>
    /\ UNCHANGED cacheVars

\* line 40 finds nothing to return
Miss(p) ==
    /\ pc[p] = "l40"
    /\ ~Truthy(cached_data[p])
    /\ pc' = [pc EXCEPT ![p] = "l44"]
    /\ UNCHANGED <<url, cached_data, html_content, ret, fetched, nCalls, entry, overlap,
                   fetchedBy, incrBy>>
    /\ UNCHANGED cacheVars

\* line 44: html_content = method(url), the page as it is now
Fetch(p, body) ==
    /\ pc[p] = "l44"
    /\ html_content' = [html_content EXCEPT ![p] = body]
    /\ fetched' = [fetched EXCEPT ![url[p]] = @ + 1]
    /\ fetchedBy' = [fetchedBy EXCEPT ![p] = @ + 1]
    /\ pc' = [pc EXCEPT ![p] = "l46"]
    /\ UNCHANGED <<url, cached_data, ret, nCalls, entry, overlap, incrBy>>
    /\ UNCHANGED cacheVars

\* line 44: requests.get raises, and the call ends with the exception
FetchRaises(p) ==
    /\ pc[p] = "l44"
    /\ ret' = [kind |-> "raise", val |-> <<>>]
    /\ Leave(p)
    /\ UNCHANGED <<fetched, nCalls>>
    /\ UNCHANGED cacheVars

\* line 46: redis_store.incr(count_key)
Incr(p) ==
    /\ pc[p] = "l46"
    /\ redis' = RedisIncr(redis, count_key(url[p]))
    /\ incrBy' = [incrBy EXCEPT ![p] = @ + CountOf(redis', url[p]) - CountOf(redis, url[p])]
    /\ pc' = [pc EXCEPT ![p] = "l47"]
    /\ UNCHANGED <<issued, calls, nStores, result>>
    /\ UNCHANGED <<url, cached_data, html_content, ret, fetched, nCalls, entry, overlap,
                   fetchedBy>>

\* line 47: redis_store.set(cached_key, html_content)
SetCached(p) ==
    /\ pc[p] = "l47"
    /\ redis' = RedisSet(redis, cached_key(url[p]), Encode(PyStr(html_content[p])))
    /\ pc' = [pc EXCEPT ![p] = "l48"]
    /\ UNCHANGED <<issued, calls, nStores, result>>
    /\ UNCHANGED <<url, cached_data, html_content, ret, fetched, nCalls, entry, overlap,
                   fetchedBy, incrBy>>

\* line 48: redis_store.expire(cached_key, 10)
Expire(p) ==
    /\ pc[p] = "l48"
    /\ redis' = expire_cached(redis, cached_key(url[p]))
    /\ pc' = [pc EXCEPT ![p] = "l50"]
    /\ UNCHANGED <<issued, calls, nStores, result>>
    /\ UNCHANGED <<url, cached_data, html_content, ret, fetched, nCalls, entry, overlap,
                   fetchedBy, incrBy>>

\* line 50: return html_content
Return(p) ==
    /\ pc[p] = "l50"
    /\ ret' = [kind |-> "miss", val |-> html_content[p]]
    /\ Leave(p)
    /\ UNCHANGED <<fetched, nCalls>>
    /\ UNCHANGED cacheVars

\* a second passes in the Redis server
Tick ==
    /\ DOMAIN redis.ttl # {}
    /\ redis' = RedisTick(redis)
    /\ UNCHANGED <<issued, calls, nStores, result>>
    /\ UNCHANGED webVars

NextWeb ==
    \/ \E p \in Procs, u \in URLs : CallGetPage(p, u)
    \/ \E p \in Procs : GetCached(p)
    \/ \E p \in Procs : ReturnCached(p)
    \/ \E p \in Procs : Miss(p)
    \/ \E p \in Procs, body \in Bodies : Fetch(p, body)
    \/ \E p \in Procs : FetchRaises(p)
    \/ \E p \in Procs : Incr(p)
    \/ \E p \in Procs : SetCached(p)
    \/ \E p \in Procs : Expire(p)
    \/ \E p \in Procs : Return(p)
    \/ Tick

SpecWeb == Init /\ [][NextWeb]_vars

(* ------------------------------ properties ----------------------------- *)
\* equality of two Python values, type first
Same(a, b) == a.t = b.t /\ a.v = b.v

\* the defaults _decode_value is tried with: "", 0, "d"
Defaults == <<PyStr(<<>>), PyInt(0), PyStr(<<100>>)>>

\* the state of one key: its value and its time to live, where it has them
KeyState(r, k) ==
    <<IF k \in DOMAIN r.data THEN <<r.data[k]>> ELSE <<>>,
      IF k \in DOMAIN r.ttl THEN <<r.ttl[k]>> ELSE <<>>>>

\* the callers that are past the miss of line 40
Missed(p) == pc[p] \in {"l44", "l46", "l47", "l48", "l50"}

C3_DecodeFallsBack ==
    /\ \A k \in ProbeKeys :
        LET value == RedisGet(redis, k)
            failed == Decode(value, "strict").t = "raise"
            g == get(redis, k, "None")
            gs == get_str(redis, k)
        IN /\ g.t = "str" /\ gs.t = "str"
           /\ failed => g.v = <<>> /\ gs.v = <<>>
           /\ ~failed => Utf8Encode(g.v) = value.v /\ gs.v = g.v
           /\ \A j \in 1..Len(Defaults) :
                  Same(decode_value(value, Defaults[j]),
                       IF failed THEN Defaults[j] ELSE Decode(value, "strict"))
    /\ result.op \in {"get_str"} => result.out.t = "str"

\* get_str of a key that holds bytes that are no UTF-8 returned ""
C3_Witness ==
    /\ result.op = "get_str"
    /\ result.key \in DOMAIN redis.data
    /\ Decode(RedisGet(redis, result.key), "strict").t = "raise"
    /\ Same(result.out, PyStr(<<>>))

\* C4 as claimed: get_int(k) returns the integer the stored bytes are the
\* decimal text of, and 0, without raising, for a missing key and for bytes
\* that are not the text of an integer.
C4_GetIntDefaultsToZero ==
    result.op = "get_int" =>
        LET text == Decode(RedisGet(redis, result.key), "strict")
            n == IF text.t = "str" THEN PyIntOfStr(text.v) ELSE text
            expected == IF n.t = "int" THEN n ELSE PyInt(0)
        IN Same(result.out, expected)

\* C5: the counter under 'RedisCache.store' equals the number of store calls
\* made on the instance since it was constructed (no key before the first).
C5_StoreCallsCounted ==
    Same(RedisGet(redis, "RedisCache.store"),
         IF Len(calls) = 0 THEN None ELSE PyBytes(NatDigits(Len(calls))))

\* two store calls were made and replay read a count of 2
C5_Witness ==
    /\ Len(calls) = 2
    /\ result.op = "replay"
    /\ Same(result.out.v.count, PyInt(2))

\* C6 as claimed: after n store calls the lists 'RedisCache.store:inputs' and
\* 'RedisCache.store:outputs' each hold n elements and replay reports n calls
\* followed by n history lines.
C6_HistoryRecorded ==
    /\ Len(RedisLRange(redis, "RedisCache.store:inputs")) = Len(calls)
    /\ Len(RedisLRange(redis, "RedisCache.store:outputs")) = Len(calls)
    /\ Same(replay(redis, StoreFn).count, PyInt(Len(calls)))
    /\ Len(replay(redis, StoreFn).lines) = Len(calls)

\* C7: a store call returns a key no earlier store call returned, and leaves
\* every key returned before with the value it held.
C7_KeysUnique ==
    [][nStores' = nStores + 1 =>
        /\ result'.key \notin issued
        /\ \A k \in issued \cap DOMAIN redis.data :
               KeyState(redis', k) = KeyState(redis, k)
        /\ \A i \in 1..Len(calls) : calls[i].key # result'.key]_vars

\* a second store returned, and the first key still holds the bytes sent
C7_Witness ==
    /\ Len(calls) = 2
    /\ result.op = "store" /\ result.key = calls[2].key
    /\ Same(RedisGet(redis, calls[1].key), PyBytes(Encode(calls[1].data)))

\* C10: right after RedisCache() returns the database holds no key: get of a
\* key an earlier store returned gives the missing-key result "", and replay
\* reports 0 calls and no history line.
C10_ConstructFlushes ==
    result.op = "init" =>
        /\ DOMAIN redis.data = {}
        /\ \A k \in issued : Same(get(redis, k, "None"), PyStr(<<>>))
        /\ Same(replay(redis, StoreFn).count, PyInt(0))
        /\ replay(redis, StoreFn).lines = <<>>

\* an instance was constructed after two store calls on an earlier one
C10_Witness == result.op = "init" /\ nStores = 2 /\ Cardinality(issued) = 2

\* C2 as claimed: a call made when no other is in progress, whose lookup
\* meets the unexpired entry of an earlier call, does not go on to fetch the
\* page and adds nothing to the counter.
C2_CachedWithinWindow ==
    \A p \in Procs :
        (entry[p] = "live" /\ ~overlap[p]) =>
            ~Missed(p) /\ fetchedBy[p] = 0 /\ incrBy[p] = 0

\* C8: a miss writes the page under cached:u and gives the entry 10 seconds
\* to live (with no other call in progress during it, the entry is there, with
\* the body the call fetched); lookups and hits change nothing in the
\* database, the expiry included; a call that met no entry goes on to fetch,
\* and a call that reaches its return after a miss has fetched once and added
\* exactly 1 to count:u.
C8_FixedTimeToLive ==
    [][\A p \in Procs :
        LET ck == "cached:" \o url[p]
        IN /\ (pc[p] = "l47" /\ pc'[p] = "l48") =>
                  /\ ck \in DOMAIN redis'.data
                  /\ redis'.data[ck].val = Utf8Encode(html_content[p])
           /\ (pc[p] = "l48" /\ pc'[p] = "l50") =>
                  /\ ck \in DOMAIN redis'.data =>
                         ck \in DOMAIN redis'.ttl /\ redis'.ttl[ck] = 10
                  /\ ~overlap[p] =>
                         KeyState(redis', ck)
                            = <<<<[type |-> "string",
                                   val |-> Utf8Encode(html_content[p])]>>, <<10>>>>
           /\ (pc[p] \in {"l38", "l40"} /\ pc'[p] # pc[p]) => redis' = redis
           /\ (pc[p] = "l40" /\ cached_data[p] = None) => pc'[p] \in {"l40", "l44"}
           /\ pc'[p] = "l50" => fetchedBy'[p] = 1 /\ incrBy'[p] = 1]_vars

\* after a hit, a call that found the entry expired has fetched again, raised
\* the counter to 2 and cached the page for 10 seconds
C8_Witness ==
    \E p \in Procs :
        /\ pc[p] = "l50" /\ entry[p] = "expired" /\ ~overlap[p]
        /\ ret.kind = "hit"
        /\ CountOf(redis, url[p]) = 2
        /\ KeyState(redis, "cached:" \o url[p])
              = <<<<[type |-> "string", val |-> Utf8Encode(html_content[p])]>>, <<10>>>>

\* the URL the step of caller p works on
StepUrl(p) == IF pc[p] = "idle" THEN url'[p] ELSE url[p]

\* C9: whenever no get_page(u) is in progress, count:u equals the number of
\* fetches of u that completed; and a step of a get_page for another URL
\* leaves count:u and cached:u as they are.
C9_CounterMatchesFetches ==
    [][/\ \A u \in URLs :
            (\A p \in Procs : pc'[p] = "idle" \/ url'[p] # u) =>
                CountOf(redis', u) = fetched'[u]
       /\ \A p \in Procs, u \in URLs :
            (pc'[p] # pc[p] /\ StepUrl(p) # u) =>
                /\ KeyState(redis', "count:" \o u) = KeyState(redis, "count:" \o u)
                /\ KeyState(redis', "cached:" \o u) = KeyState(redis, "cached:" \o u)]_vars

\* two callers missed the same URL inside one expiry window: each fetched it
\* and each raised the counter
C9_Witness ==
    \E u \in URLs :
        /\ \A p \in Procs : pc[p] = "l50" /\ url[p] = u /\ incrBy[p] = 1
        /\ fetched[u] = 2
        /\ CountOf(redis, u) = 2

====
